---- MODULE Spec2Model ----
(***************************************************************************)
(* AnimeVerse: the nested comment / staff-chat thread state of the three   *)
(* views (anime comments, episode comments, staff chat) and the REST       *)
(* client calls that feed it.                                              *)
(*                                                                         *)
(* JavaScript objects and arrays have identity and can be assigned to in   *)
(* place, so the thread forest is modelled on an explicit heap: a node     *)
(* object is a record at an address of heap.objs, an array is a sequence   *)
(* of node addresses at an address of heap.arrs.  Address 0 stands for an  *)
(* absent (undefined) array, id 0 for an absent id.                        *)
(***************************************************************************)
EXTENDS Integers, Sequences, FiniteSets, TLC

\* ------------------------------------------------------------------ bounds
\* nodes of a list handed to a merge function
MaxInitNodes == 3
\* nodes of the list a view is mounted with
MaxViewNodes == 1
\* remote calls of one view in flight at a time
MaxCalls == 2
\* remote calls a view issues in one run
MaxOps == 1
\* remote calls a view issues in a run in which calls race
MaxRaceOps == 2
\* file reads of one view in flight at a time
MaxReads == 1
\* nodes created in a scenario that starts from the empty list
MaxScenarioIds == 3
MaxPolls == 2
MaxOtherPosts == 1

\* ------------------------------------------------------------- data shapes
Undef == "<undefined>"
NoArr == 0
NoId == 0

Views == {"anime", "episode", "staff"}
CommentViews == {"anime", "episode"}

EmptyHeap == [objs |-> <<>>, arrs |-> <<>>]

\* types.ts Comment / EpisodeComment / StaffChatMessage
Node(id, author, text, mediaUrl, parent, replies, isDeleted) ==
    [id |-> id, author |-> author, text |-> text, timestamp |-> id,
     mediaUrl |-> mediaUrl, parent |-> parent, replies |-> replies,
     isDeleted |-> isDeleted]

\* `new object` / `new array`: the address is the next free one
AllocObj(H, o) ==
    [h |-> [H EXCEPT !.objs = Append(@, o)], r |-> Len(H.objs) + 1]

AllocArr(H, s) ==
    [h |-> [H EXCEPT !.arrs = Append(@, s)], r |-> Len(H.arrs) + 1]

\* the elements of an array; an absent array has none
Elems(H, a) == IF a = NoArr THEN <<>> ELSE H.arrs[a]

\* ---------------------------------------------------------- deep values
\* The content of a forest without addresses (what a deep-equality test
\* compares): a node is its fields plus the sequence of its replies' values,
\* an absent replies array is Undef.
RECURSIVE NodeVal(_, _), ListVal(_, _)
NodeVal(H, n) ==
    LET o == H.objs[n]
    IN  [id |-> o.id, author |-> o.author, text |-> o.text,
         timestamp |-> o.timestamp, mediaUrl |-> o.mediaUrl,
         parent |-> o.parent, isDeleted |-> o.isDeleted,
         hasReplies |-> (o.replies # NoArr),
         replies |-> ListVal(H, o.replies)]

ListVal(H, a) ==
    [i \in 1..Len(Elems(H, a)) |-> NodeVal(H, Elems(H, a)[i])]

\* node addresses of a forest, depth first
RECURSIVE NodesOf(_, _), NodesFrom(_, _, _)
NodesFrom(H, s, i) ==
    IF i > Len(s) THEN <<>>
    ELSE <<s[i]>> \o NodesOf(H, H.objs[s[i]].replies) \o NodesFrom(H, s, i + 1)

NodesOf(H, a) == NodesFrom(H, Elems(H, a), 1)

Range(s) == {s[i] : i \in 1..Len(s)}

\* ------------------------------------------ comment views: merge functions
\* The placeholder text of a tombstone: '' in the anime view, '[deleted]' in
\* the episode view and in staff chat.
DeletedText(view) == IF view = "anime" THEN "" ELSE "[deleted]"

\* c.id === updated.id / c.id === parentId / c.id === deletingCommentId
IsTarget(o, id) == o.id = id

\* the test left out: every node is given a replies array
HasRepliesArrayAlways(o) == TRUE

\* if (c.replies): an array, even an empty one, is truthy
HasRepliesArray(o) == o.replies # NoArr

\* the node the server sent taken whole
EditedNodeFromServer(o, updated) == updated

\* { ...c, text: updated.text }
EditedNode(o, updated) == [o EXCEPT !.text = updated.text]

\* { ...c, replies: r }
WithReplies(o, r) == [o EXCEPT !.replies = r]

\* the reply put first
PrependReply(s, reply) == <<reply>> \o s

\* [...(c.replies || []), reply]
AppendReply(s, reply) == Append(s, reply)

\* the new comment put last
AppendTop(s, added) == Append(s, added)

\* [addedComment, ...prev]
PrependTop(s, added) == <<added>> \o s

\* a tombstone that keeps the attachment
TombstoneKeepsMedia(o, view) ==
    [o EXCEPT !.text = DeletedText(view), !.isDeleted = TRUE]

\* a tombstone that lets go of the replies
TombstoneDropsReplies(o, view) ==
    [o EXCEPT !.text = DeletedText(view), !.isDeleted = TRUE, !.mediaUrl = Undef,
              !.replies = NoArr]

\* { ...c, text: <placeholder>, isDeleted: true, mediaUrl: undefined }
Tombstone(o, view) ==
    [o EXCEPT !.text = DeletedText(view), !.isDeleted = TRUE, !.mediaUrl = Undef]

\* an empty replies array taken for replies
HasChildrenIfArray(H, o) == o.replies # NoArr

\* c.replies && c.replies.length > 0
HasChildren(H, o) == o.replies # NoArr /\ Len(Elems(H, o.replies)) > 0

\* updateInState: list.map(c => ...) with `updated` the node the server sent
RECURSIVE updateInState(_, _, _), updateInStateFrom(_, _, _, _, _)
updateInStateFrom(H, list, updated, i, acc) ==
    IF i > Len(Elems(H, list)) THEN AllocArr(H, acc)
    ELSE LET c == Elems(H, list)[i]
             o == H.objs[c]
         IN  IF IsTarget(o, updated.id)
             THEN LET n == AllocObj(H, EditedNode(o, updated))
                  IN  updateInStateFrom(n.h, list, updated, i + 1, Append(acc, n.r))
             ELSE IF HasRepliesArray(o)
             THEN LET sub == updateInState(H, o.replies, updated)
                      n == AllocObj(sub.h, WithReplies(o, sub.r))
                  IN  updateInStateFrom(n.h, list, updated, i + 1, Append(acc, n.r))
             ELSE updateInStateFrom(H, list, updated, i + 1, Append(acc, c))

updateInState(H, list, updated) == updateInStateFrom(H, list, updated, 1, <<>>)

\* addReplyToComment: comments.map(c => ...), `reply` the address of the node
\* the server sent
RECURSIVE addReplyToComment(_, _, _, _), addReplyFrom(_, _, _, _, _, _)
addReplyFrom(H, list, parentId, reply, i, acc) ==
    IF i > Len(Elems(H, list)) THEN AllocArr(H, acc)
    ELSE LET c == Elems(H, list)[i]
             o == H.objs[c]
         IN  IF IsTarget(o, parentId)
             THEN LET newReplies == AllocArr(H, AppendReply(Elems(H, o.replies), reply))
                      n == AllocObj(newReplies.h, WithReplies(o, newReplies.r))
                  IN  addReplyFrom(n.h, list, parentId, reply, i + 1, Append(acc, n.r))
             ELSE IF HasRepliesArray(o)
             THEN LET sub == addReplyToComment(H, o.replies, parentId, reply)
                      n == AllocObj(sub.h, WithReplies(o, sub.r))
                  IN  addReplyFrom(n.h, list, parentId, reply, i + 1, Append(acc, n.r))
             ELSE addReplyFrom(H, list, parentId, reply, i + 1, Append(acc, c))

addReplyToComment(H, list, parentId, reply) ==
    addReplyFrom(H, list, parentId, reply, 1, <<>>)

\* the pruned replies not stored
AssignRepliesLost(H, c, r) == H

\* c.replies = removeOrMarkComment(c.replies): an assignment to a field of
\* the node object the list holds
AssignReplies(H, c, r) == [H EXCEPT !.objs[c].replies = r]

\* removeOrMarkComment: list.reduce((acc, c) => ..., [])
RECURSIVE removeOrMarkComment(_, _, _, _), removeOrMarkFrom(_, _, _, _, _, _)
removeOrMarkFrom(H, list, id, view, i, acc) ==
    IF i > Len(Elems(H, list)) THEN AllocArr(H, acc)
    ELSE LET c == Elems(H, list)[i]
             o == H.objs[c]
         IN  IF IsTarget(o, id)
             THEN IF HasChildren(H, o)
                  THEN LET n == AllocObj(H, Tombstone(o, view))
                       IN  removeOrMarkFrom(n.h, list, id, view, i + 1, Append(acc, n.r))
                  ELSE removeOrMarkFrom(H, list, id, view, i + 1, acc)
             ELSE IF HasRepliesArray(o)
             THEN LET sub == removeOrMarkComment(H, o.replies, id, view)
                      H1 == AssignReplies(sub.h, c, sub.r)
                  IN  removeOrMarkFrom(H1, list, id, view, i + 1, Append(acc, c))
             ELSE removeOrMarkFrom(H, list, id, view, i + 1, Append(acc, c))

removeOrMarkComment(H, list, id, view) == removeOrMarkFrom(H, list, id, view, 1, <<>>)

\* ------------------------------------------------ staff chat: merge functions
\* [...prev, sentMessage]
AppendMessage(s, sent) == Append(s, sent)

\* messages.map(m => m.id === updatedMessage.id ? updatedMessage : m), with
\* `updatedMessage` the address of the node the server sent
ReplaceMessage(H, s, updatedMessage) ==
    [i \in 1..Len(s) |->
        IF IsTarget(H.objs[s[i]], H.objs[updatedMessage].id) THEN updatedMessage ELSE s[i]]

\* messages.some(m => m.parent?.id === deletingMessage.id)
hasReplies(H, s, id) == \E i \in 1..Len(s) : H.objs[s[i]].parent = id

\* prev.map(m => m.id === id ? { ...m, isDeleted: true, text: "[deleted]",
\*                               mediaUrl: undefined } : m)
RECURSIVE markMessageFrom(_, _, _, _, _)
markMessageFrom(H, s, id, i, acc) ==
    IF i > Len(s) THEN AllocArr(H, acc)
    ELSE IF IsTarget(H.objs[s[i]], id)
         THEN LET n == AllocObj(H, Tombstone(H.objs[s[i]], "staff"))
              IN  markMessageFrom(n.h, s, id, i + 1, Append(acc, n.r))
         ELSE markMessageFrom(H, s, id, i + 1, Append(acc, s[i]))

\* prev.filter(m => m.id !== id)
FilterOut(H, s, id) == SelectSeq(s, LAMBDA n : ~IsTarget(H.objs[n], id))

\* ---------------------------------------------------- the three operations
\* insertReply as the views perform it once the create call returned `added`
\* (an address); replyTo is the reply target's id, NoId when there is none.
insertReply(view, H, list, replyTo, added) ==
    IF view = "staff" THEN AllocArr(H, AppendMessage(Elems(H, list), added))
    ELSE IF replyTo # NoId THEN addReplyToComment(H, list, replyTo, added)
    ELSE AllocArr(H, PrependTop(Elems(H, list), added))

\* editText as the views perform it once the update call returned `updated`
\* (an address); `seen` is the list the staff-chat handler closed over.
editText(view, H, list, seen, updated) ==
    IF view = "staff" THEN AllocArr(H, ReplaceMessage(H, Elems(H, seen), updated))
    ELSE updateInState(H, list, H.objs[updated])

\* softDelete as the views perform it once the delete call resolved
softDelete(view, H, list, seen, id) ==
    IF view = "staff"
    THEN IF hasReplies(H, Elems(H, seen), id)
         THEN markMessageFrom(H, Elems(H, list), id, 1, <<>>)
         ELSE AllocArr(H, FilterOut(H, Elems(H, list), id))
    ELSE removeOrMarkComment(H, list, id, view)

\* --------------------------------------------------- what the backend sends
\* author: Partial<User>, a snapshot taken by the backend when it answers
Author(uid, name) == [id |-> uid, name |-> name]

\* the user of this session
Me == 1

\* the kinds of node the backend creates: text only (no replies field),
\* media only (with an empty replies array), and, in a list it serves, a node
\* it has marked deleted
NewKinds == {"text", "media"}
InitKinds == {"text", "media", "tomb"}

KindText(kind, view) ==
    CASE kind = "text" -> "a" [] kind = "media" -> "" [] OTHER -> DeletedText(view)

KindMedia(kind) == IF kind = "media" THEN "m" ELSE Undef

\* a node of the given kind as parsed from a response: a new object, and a new
\* array when it carries `replies`
ParseNode(H, view, id, uid, kind, parent, kids) ==
    LET withArr == kids # <<>> \/ kind # "text" \/ view = "staff"
        a == IF withArr THEN AllocArr(H, kids) ELSE [h |-> H, r |-> NoArr]
    IN  AllocObj(a.h, Node(id, Author(uid, "n"), KindText(kind, view), KindMedia(kind),
                           parent, a.r, kind = "tomb"))

\* the authors of the nodes of a list served: this session's user and another
\* one, in turn
WrittenBy(i) == 2 - (i % 2)

\* The initial list: nodes 1..k, node i replying to node p[i] < i (0: to none),
\* nested under it in the comment views, all at top level in staff chat.
RECURSIVE ParseList(_, _, _, _, _, _, _, _)
ParseList(H, view, k, p, kinds, par, i, acc) ==
    IF i > k THEN [h |-> H, s |-> acc]
    ELSE IF view = "staff"
         THEN LET n == ParseNode(H, view, i, WrittenBy(i), kinds[i], p[i], <<>>)
              IN  ParseList(n.h, view, k, p, kinds, par, i + 1, Append(acc, n.r))
         ELSE IF p[i] # par THEN ParseList(H, view, k, p, kinds, par, i + 1, acc)
         ELSE LET sub == ParseList(H, view, k, p, kinds, i, i + 1, <<>>)
                  n == ParseNode(sub.h, view, i, WrittenBy(i), kinds[i], p[i], sub.s)
              IN  ParseList(n.h, view, k, p, kinds, par, i + 1, Append(acc, n.r))

ParseForest(view, k, p, kinds) ==
    LET l == ParseList(EmptyHeap, view, k, p, kinds, NoId, 1, <<>>)
    IN  AllocArr(l.h, l.s)

ParentVectors(k) == {p \in [1..k -> 0..k] : \A i \in 1..k : p[i] < i}

\* ------------------------------------------------------ the viewer's session
\* User['role']
Roles == {"owner", "co-owner", "admin", "user"}

\* useAuth().user: null when logged out, else the user's id and role (a role
\* the backend left out is Undef)
NoUser == [id |-> NoId, role |-> Undef]
Viewer(uid, role) == [id |-> uid, role |-> role]

\* every role counts as privileged
isAdminRoleAnyRole(role) == role # Undef

\* if (!role) return false; return ['owner', 'co-owner', 'admin'].includes(role)
isAdminRole(role) ==
    IF role = Undef THEN FALSE ELSE role \in {"owner", "co-owner", "admin"}

\* token ? { 'Authorization': `Bearer ${token}` } : {}
getAuthHeader(token) == IF token THEN "Bearer" ELSE Undef

\* ---------------------------------------------------------- the compose form
\* mediaBase64 === null, replyTo === null / editingComment === null
NoFile == "<null>"
NoNode == 0

\* useState('') / (null) / (null) / (null) / (null)
EmptyForm ==
    [text |-> "", media |-> NoFile, preview |-> FALSE, replyTo |-> NoNode, editing |-> NoNode]

\* what the viewer types: nothing, a blank, a text
Texts == {"", " ", "b"}

\* trim left out
TrimNothing(t) == t

\* String.prototype.trim on the texts of the model
Trim(t) == IF t = " " THEN "" ELSE t

\* (!newCommentText.trim() && !mediaBase64) || !user
\* (!messageText.trim() && !mediaBase64) || isSending
SubmitBlocked(v, f, u, sending) ==
    \/ Trim(f.text) = "" /\ f.media = NoFile
    \/ IF v = "staff" THEN sending ELSE u = NoUser

\* resetForm; the staff-chat one leaves editingMessage alone
resetForm(v, f) ==
    IF v = "staff"
    THEN [f EXCEPT !.text = "", !.replyTo = NoNode, !.media = NoFile, !.preview = FALSE]
    ELSE EmptyForm

\* onEdit={setEditingComment} and the effect on [editingComment], which runs
\* when the object set is another one; handleEditClick in staff chat
startEdit(v, f, o, n) ==
    IF v = "staff" THEN [f EXCEPT !.editing = n, !.text = o.text, !.replyTo = NoNode]
    ELSE IF n = f.editing THEN f
    ELSE [f EXCEPT !.editing = n, !.text = o.text, !.replyTo = NoNode,
                   !.media = NoFile, !.preview = FALSE]

\* ------------------------------------------------------------- the controls
\* the Editar / Eliminar buttons of the Comment component; the pencil and
\* trash buttons of a staff-chat message
ModifyOffered(v, u, o, f) ==
    IF v = "staff" THEN f.editing = NoNode /\ ~o.isDeleted /\ o.author.id = u.id
    ELSE ~o.isDeleted /\ u # NoUser /\ (u.id = o.author.id \/ isAdminRole(u.role))

\* the Responder / Reply button
ReplyOffered(v, u, o, f) ==
    IF v = "staff" THEN f.editing = NoNode /\ ~o.isDeleted /\ o.author.id = u.id
    ELSE ~o.isDeleted /\ u # NoUser

\* ------------------------------------------------------------------- state
VARIABLES
    view,          \* which of the three views this is
    heap,          \* the objects and arrays alive
    comments,      \* useState: the list the view shows (an array address)
    nextId,        \* the next id the backend assigns
    prevHeap,      \* the heap just before the last merge or response
    prevComments,  \* the list the last merge or response found
    lastOp,        \* the last merge: its kind, target id and argument node
    deleting,      \* useState: deletingCommentId / deletingMessage (an id)
    calls,         \* the remote calls in flight, in the order issued
    lastCall,      \* the call that completed last, and how
    toast,         \* the last notification shown
    user,          \* useAuth().user
    token,         \* localStorage holds 'animeverse-auth-token'
    form,          \* useState: text, mediaBase64, mediaPreview, replyTo, editing
    reads,         \* FileReader reads in flight
    isSending,     \* useState: isSending (staff chat)
    issued,        \* history: the number of remote calls issued so far
    served,        \* history: the ids of the nodes the backend has sent
    limit,         \* the number of remote calls the run goes up to
    log,           \* history: the merges of a scenario, in order
    entity,        \* props: animeId / episodeId, the thread the view shows
    mounted,       \* the component is mounted
    server,        \* the messages the staff-chat backend holds
    polls,         \* the getStaffChatMessages calls in flight
    polled         \* history: the number of getStaffChatMessages calls issued

engineVars == <<view, heap, comments, nextId, prevHeap, prevComments, lastOp>>
formVars == <<user, token, form, reads, isSending>>
historyVars == <<issued, served, limit, log>>
remoteVars == <<entity, mounted, server, polls, polled>>
viewVars == <<deleting, calls, lastCall, toast, formVars, historyVars, remoteVars>>
vars == <<engineVars, viewVars>>

NoOp == [kind |-> "none", id |-> NoId, node |-> 0]
NoCall == [kind |-> "none", id |-> NoId, outcome |-> "none", n |-> 0]

InitForest(maxNodes) ==
    /\ view \in Views
    /\ \E k \in 0..maxNodes : \E p \in ParentVectors(k) : \E kinds \in [1..k -> InitKinds] :
          LET f == ParseForest(view, k, p, kinds)
          IN  /\ heap = f.h
              /\ comments = f.r
              /\ nextId = k + 2
    /\ prevHeap = heap
    /\ prevComments = comments
    /\ lastOp = NoOp

\* the ids of the nodes of the list shown
ShownIds == {heap.objs[n].id : n \in Range(NodesOf(heap, comments))}

\* the messages of a list as the backend holds them: the fields of each,
\* no arrays
HeldBy(H, list) ==
    [i \in 1..Len(Elems(H, list)) |-> [H.objs[Elems(H, list)[i]] EXCEPT !.replies = NoArr]]

\* POST /api/staff-chat: the backend keeps the message under the id it gives it
BackendPosts(msgs, id, uid, text, media, replyTo) ==
    Append(msgs, Node(id, Author(uid, "n"), text, IF media # NoFile THEN "m" ELSE Undef,
                      replyTo, NoArr, FALSE))

\* PATCH /api/staff-chat/:id: the backend keeps the new text
BackendEdits(msgs, id, text) ==
    [i \in 1..Len(msgs) |-> IF msgs[i].id = id THEN [msgs[i] EXCEPT !.text = text] ELSE msgs[i]]

\* DELETE /api/staff-chat/:id: what the backend keeps of a message it deleted
\* is its own affair: nothing, or the message marked deleted
BackendDeletes(msgs, id) ==
    {SelectSeq(msgs, LAMBDA m : m.id # id),
     [i \in 1..Len(msgs) |-> IF msgs[i].id = id
                              THEN [msgs[i] EXCEPT !.isDeleted = TRUE, !.text = DeletedText("staff")]
                              ELSE msgs[i]]}

\* the viewer of the views: logged in with a privileged role, so that the
\* controls of every node are offered in the comment views
Admin == Viewer(Me, "admin")

InitViewOf(u, ops) ==
    /\ user = u
    /\ limit = ops
    /\ deleting = NoId
    /\ calls = <<>>
    /\ lastCall = NoCall
    /\ toast = "none"
    /\ token = TRUE
    /\ form = EmptyForm
    /\ reads = 0
    /\ isSending = FALSE
    /\ issued = 0
    /\ served = ShownIds
    /\ log = <<>>
    /\ entity = 1
    /\ mounted = TRUE
    /\ server = IF view = "staff" THEN HeldBy(heap, comments) ELSE <<>>
    /\ polls = <<>>
    /\ polled = 0

InitView(ops) == InitViewOf(Admin, ops)

\* a view mounted with the list the backend served
Init == InitForest(MaxViewNodes) /\ InitView(MaxOps)

InitEngine == InitForest(MaxInitNodes) /\ InitView(0)

\* the state a merge starts from: the list the view holds
Start == [h |-> heap, r |-> comments]

Merged(kind, id, node, start, result) ==
    /\ heap' = result.h
    /\ comments' = result.r
    /\ prevHeap' = start.h
    /\ prevComments' = start.r
    /\ lastOp' = [kind |-> kind, id |-> id, node |-> node]

\* the ids a call can name: those the backend handed out so far; the last of
\* them belongs to a node the list does not hold
TargetIds == 1..(nextId - 1)

\* Each run of SpecEngine hands one list to one merge function.
\* A create call returned a node of `kind` replying to `replyTo`; the view
\* merges it.
ApplyInsert(replyTo, kind) ==
    /\ lastOp = NoOp
    /\ LET start == Start
           added == ParseNode(start.h, view, nextId, Me, kind, replyTo, <<>>)
       IN  Merged("insert", replyTo, added.r, start,
                  insertReply(view, added.h, start.r, replyTo, added.r))
    /\ UNCHANGED <<view, nextId, viewVars>>

\* the backend's copy of node `id` after an edit to `text`: what the view holds
\* (a text node when the view holds none), with the author snapshot renewed
\* when `renamed`
ServerCopy(H, list, id, text, renamed) ==
    LET held == {n \in Range(NodesOf(H, list)) : H.objs[n].id = id}
        o == IF held = {} THEN Node(id, Author(Me, "n"), "a", Undef, NoId, NoArr, FALSE)
             ELSE H.objs[CHOOSE n \in held : TRUE]
    IN  [o EXCEPT !.text = text,
                  !.author = IF renamed THEN Author(o.author.id, "n2") ELSE @]

EditTexts == {"b"}

\* an update call returned; the view merges the node it returned
ApplyEdit(id, text, renamed) ==
    /\ lastOp = NoOp
    /\ LET start == Start
           copy == ServerCopy(start.h, start.r, id, text, renamed)
           arr == IF copy.replies = NoArr THEN [h |-> start.h, r |-> NoArr]
                  ELSE AllocArr(start.h, <<>>)
           updated == AllocObj(arr.h, WithReplies(copy, arr.r))
       IN  Merged("edit", id, updated.r, start,
                  editText(view, updated.h, start.r, start.r, updated.r))
    /\ UNCHANGED <<view, nextId, viewVars>>

\* a delete call resolved; the view merges the deletion
ApplyDelete(id) ==
    /\ lastOp = NoOp
    /\ LET start == Start
       IN  Merged("delete", id, 0, start, softDelete(view, start.h, start.r, start.r, id))
    /\ UNCHANGED <<view, nextId, viewVars>>

NextEngine ==
    \/ \E replyTo \in {NoId} \cup TargetIds, kind \in NewKinds : ApplyInsert(replyTo, kind)
    \/ \E id \in TargetIds, text \in EditTexts, renamed \in BOOLEAN : ApplyEdit(id, text, renamed)
    \/ \E id \in TargetIds : ApplyDelete(id)

SpecEngine == InitEngine /\ [][NextEngine]_vars

\* ------------------------------------------------- scenarios from the empty list
\* useState(initialComments) with no comments yet / useState([])
InitScenario ==
    /\ view \in Views
    /\ heap = AllocArr(EmptyHeap, <<>>).h
    /\ comments = AllocArr(EmptyHeap, <<>>).r
    /\ nextId = 1
    /\ prevHeap = heap
    /\ prevComments = comments
    /\ lastOp = NoOp
    /\ InitView(0)

\* a create call returned a node of `kind` replying to `replyTo`, and the view
\* merged it
ThenInsert(replyTo, kind) ==
    /\ nextId <= MaxScenarioIds
    /\ LET start == Start
           added == ParseNode(start.h, view, nextId, Me, kind, replyTo, <<>>)
       IN  Merged("insert", replyTo, added.r, start,
                  insertReply(view, added.h, start.r, replyTo, added.r))
    /\ nextId' = nextId + 1
    /\ served' = served \cup {nextId}
    /\ log' = Append(log, [kind |-> "insert", id |-> replyTo])
    /\ UNCHANGED <<view, deleting, calls, lastCall, toast, formVars, issued, limit, remoteVars>>

\* a delete call for a node shown and not deleted resolved, and the view merged
\* the deletion
ThenDelete(id) ==
    /\ \E n \in Range(NodesOf(heap, comments)) : heap.objs[n].id = id /\ ~heap.objs[n].isDeleted
    /\ LET start == Start
       IN  Merged("delete", id, 0, start, softDelete(view, start.h, start.r, start.r, id))
    /\ log' = Append(log, [kind |-> "delete", id |-> id])
    /\ UNCHANGED <<view, nextId, deleting, calls, lastCall, toast, formVars, issued,
                   served, limit, remoteVars>>

NextScenario ==
    \/ \E replyTo \in {NoId} \cup ShownIds, kind \in NewKinds : ThenInsert(replyTo, kind)
    \/ \E id \in ShownIds : ThenDelete(id)

SpecScenario == InitScenario /\ [][NextScenario]_vars

\* ---------------------------------------------------------- the REST client
\* how a call ends: a 2xx response, a response with an error status (the
\* backend rejected the call), or fetch rejecting (the transport failed)
Outcomes == {"ok", "rejected", "failed"}

\* deleteComment / deleteEpisodeComment / deleteStaffChatMessage:
\* `await fetch(...)` and nothing else; the response is not looked at
deleteCommentResolves(outcome) == outcome # "failed"

\* the status of the response not looked at
handleResponseAnyStatus(outcome) == outcome # "failed"

\* handleResponse: throws unless response.ok
handleResponseResolves(outcome) == outcome = "ok"

\* a request as fetch sends it, with what the handler that awaits it closed
\* over: the reply target of its render, the animeId / episodeId of its
\* render and, in staff chat, `messages`; `stored` is the id under which the
\* backend has carried the request out, NoId while it has not
Request(kind, id, text, media, replyTo) ==
    [kind |-> kind, id |-> id, text |-> text, media |-> media, replyTo |-> replyTo,
     seen |-> IF view = "staff" THEN comments ELSE NoArr,
     auth |-> getAuthHeader(token), n |-> issued + 1,
     entity |-> entity, stored |-> NoId]

\* the call leaves the calls in flight
RemoveAt(s, i) == SubSeq(s, 1, i - 1) \o SubSeq(s, i + 1, Len(s))

\* the node a create call returns: the backend stores the text and the
\* attachment sent under a new id; the body of an error response holds no node
\* (no id)
CreatedNode(H, call, outcome) ==
    LET withArr == call.media # NoFile \/ view = "staff"
        a == IF withArr THEN AllocArr(H, <<>>) ELSE [h |-> H, r |-> NoArr]
    IN  AllocObj(a.h, Node(IF outcome # "ok" THEN NoId
                           ELSE IF call.stored # NoId THEN call.stored ELSE nextId,
                           Author(user.id, "n"),
                           call.text, IF call.media # NoFile THEN "m" ELSE Undef,
                           call.replyTo, a.r, FALSE))

\* the node an update call returns: the backend's copy with the text sent
UpdatedNode(H, list, call) ==
    LET copy == ServerCopy(H, list, call.id, call.text, FALSE)
        arr == IF copy.replies = NoArr THEN [h |-> H, r |-> NoArr] ELSE AllocArr(H, <<>>)
    IN  AllocObj(arr.h, WithReplies(copy, arr.r))

\* ------------------------------------------------------- what the view shows
\* topLevelComments.map(comment => <Comment/>) with its replies below it;
\* messages.map(msg => ...) in staff chat
Rendered ==
    IF view = "staff" THEN Range(Elems(heap, comments))
    ELSE Range(NodesFrom(heap,
                         SelectSeq(Elems(heap, comments),
                                   LAMBDA n : heap.objs[n].parent = NoId), 1))

\* the AlertDialog is modal: while it is open the page takes no input; nor
\* does a component that is not mounted
PageTakesInput == mounted /\ deleting = NoId

\* ------------------------------------------------------- the delete dialog
\* the Eliminar / Delete button is rendered, to a viewer who wrote the node
\* or has a privileged role, on the nodes of the list not marked deleted
CanDelete(id) ==
    \E n \in Rendered : heap.objs[n].id = id /\ ModifyOffered(view, user, heap.objs[n], form)

\* onDelete={setDeletingCommentId} / setDeletingMessage(msg)
OpenDeleteDialog(id) ==
    /\ CanDelete(id)
    /\ PageTakesInput
    /\ deleting' = id
    /\ UNCHANGED <<engineVars, calls, lastCall, toast, formVars, historyVars, remoteVars>>

\* AlertDialogCancel / onOpenChange(false)
CancelDelete ==
    /\ mounted
    /\ deleting # NoId
    /\ deleting' = NoId
    /\ UNCHANGED <<engineVars, calls, lastCall, toast, formVars, historyVars, remoteVars>>

\* handleDeleteConfirm / handleDeleteMessage up to the await: the call is
\* issued for the id the handler closed over; the dialog's action button
\* closes the dialog (onOpenChange(false))
ConfirmDelete ==
    /\ mounted
    /\ deleting # NoId
    /\ Len(calls) < MaxCalls
    /\ issued < limit
    /\ calls' = Append(calls, Request("delete", deleting, "", NoFile, NoId))
    /\ issued' = issued + 1
    /\ deleting' = NoId
    /\ UNCHANGED <<engineVars, lastCall, toast, formVars, served, limit, log, remoteVars>>

\* handleDeleteConfirm / handleDeleteMessage from the await on; the state
\* setters of a component that is no longer mounted do nothing, the toast is
\* shown all the same
DeleteCompletes(i, outcome) ==
    /\ i \in 1..Len(calls)
    /\ calls[i].kind = "delete"
    /\ LET call == calls[i]
           start == Start
       IN  /\ IF deleteCommentResolves(outcome) /\ mounted
              THEN /\ Merged("delete", call.id, 0, start,
                             softDelete(view, start.h, start.r, call.seen, call.id))
                   /\ toast' = IF view = "staff" THEN toast ELSE "deleted"
                   /\ deleting' = NoId
              ELSE /\ prevHeap' = heap
                   /\ prevComments' = comments
                   /\ toast' = IF ~deleteCommentResolves(outcome) THEN "error"
                               ELSE IF view = "staff" THEN toast ELSE "deleted"
                   /\ deleting' = IF view = "staff" \/ ~mounted THEN deleting ELSE NoId
                   /\ UNCHANGED <<heap, comments, lastOp>>
           /\ lastCall' = [kind |-> "delete", id |-> call.id, outcome |-> outcome, n |-> call.n]
           /\ server' \in IF view = "staff" /\ outcome = "ok"
                          THEN BackendDeletes(server, call.id) ELSE {server}
    /\ calls' = RemoveAt(calls, i)
    /\ UNCHANGED <<view, nextId, formVars, historyVars, entity, mounted, polls, polled>>

\* ------------------------------------------------------------ the compose box
\* the form is rendered to a logged-in viewer (comment views); the textarea is
\* disabled while a message is being sent (staff chat)
FormOffered == IF view = "staff" THEN ~isSending ELSE user # NoUser

\* onChange={(e) => setNewCommentText(e.target.value)} / setEditedText
SetText(t) ==
    /\ PageTakesInput
    /\ FormOffered
    /\ t # form.text
    /\ form' = [form EXCEPT !.text = t]
    /\ UNCHANGED <<engineVars, deleting, calls, lastCall, toast, user, token, reads,
                   isSending, historyVars, remoteVars>>

\* handleFileChange up to the await: the paperclip is disabled (comment views)
\* or not rendered (staff chat) while a node is being edited
PickFile ==
    /\ PageTakesInput
    /\ view \in CommentViews => user # NoUser
    /\ form.editing = NoNode
    /\ reads < MaxReads
    /\ form' = [form EXCEPT !.preview = TRUE]
    /\ reads' = reads + 1
    /\ UNCHANGED <<engineVars, deleting, calls, lastCall, toast, user, token,
                   isSending, historyVars, remoteVars>>

\* handleFileChange from the await on: setMediaBase64(dataUri)
FileLoaded ==
    /\ reads > 0
    /\ reads' = reads - 1
    /\ form' = IF mounted THEN [form EXCEPT !.media = "m"] ELSE form
    /\ UNCHANGED <<engineVars, deleting, calls, lastCall, toast, user, token,
                   isSending, historyVars, remoteVars>>

\* the X button of the preview: setMediaBase64(null); setMediaPreview(null)
RemoveAttachment ==
    /\ PageTakesInput
    /\ form.preview
    /\ view = "staff" => form.editing = NoNode
    /\ form' = [form EXCEPT !.media = NoFile, !.preview = FALSE]
    /\ UNCHANGED <<engineVars, deleting, calls, lastCall, toast, user, token, reads,
                   isSending, historyVars, remoteVars>>

\* onReply={setReplyTo} / setReplyTo(msg)
StartReply(n) ==
    /\ PageTakesInput
    /\ n \in Rendered
    /\ ReplyOffered(view, user, heap.objs[n], form)
    /\ n # form.replyTo
    /\ form' = [form EXCEPT !.replyTo = n]
    /\ UNCHANGED <<engineVars, deleting, calls, lastCall, toast, user, token, reads,
                   isSending, historyVars, remoteVars>>

\* onEdit={setEditingComment} with its effect / handleEditClick
StartEdit(n) ==
    /\ PageTakesInput
    /\ n \in Rendered
    /\ ModifyOffered(view, user, heap.objs[n], form)
    /\ n # form.editing
    /\ form' = startEdit(view, form, heap.objs[n], n)
    /\ UNCHANGED <<engineVars, deleting, calls, lastCall, toast, user, token, reads,
                   isSending, historyVars, remoteVars>>

\* the X button of the "replying to" / "editing" banner of the comment views
ResetForm ==
    /\ PageTakesInput
    /\ view \in CommentViews
    /\ user # NoUser
    /\ form.replyTo # NoNode \/ form.editing # NoNode
    /\ form' = resetForm(view, form)
    /\ UNCHANGED <<engineVars, deleting, calls, lastCall, toast, user, token, reads,
                   isSending, historyVars, remoteVars>>

\* cancelEdit (staff chat)
cancelEdit ==
    /\ PageTakesInput
    /\ view = "staff"
    /\ form.editing # NoNode
    /\ form' = [form EXCEPT !.editing = NoNode, !.text = ""]
    /\ UNCHANGED <<engineVars, deleting, calls, lastCall, toast, user, token, reads,
                   isSending, historyVars, remoteVars>>

\* the X button of the "Replying to" banner of staff chat: setReplyTo(null)
CancelReply ==
    /\ PageTakesInput
    /\ view = "staff"
    /\ form.replyTo # NoNode
    /\ form.editing = NoNode
    /\ form' = [form EXCEPT !.replyTo = NoNode]
    /\ UNCHANGED <<engineVars, deleting, calls, lastCall, toast, user, token, reads,
                   isSending, historyVars, remoteVars>>

\* the id of a node held in a form field, NoId when the field is null
IdOf(n) == IF n = NoNode THEN NoId ELSE heap.objs[n].id

\* handleCommentSubmit / handleSendMessage up to the await: the handler
\* returns at once when the guard blocks the submit
Submit ==
    /\ PageTakesInput
    /\ IF SubmitBlocked(view, form, user, isSending)
       THEN UNCHANGED <<calls, isSending, issued>>
       ELSE /\ Len(calls) < MaxCalls
            /\ issued < limit
            /\ calls' = Append(calls,
                               IF form.editing # NoNode
                               THEN Request("edit", IdOf(form.editing), form.text, NoFile, NoId)
                               ELSE Request("create", NoId, form.text, form.media,
                                            IdOf(form.replyTo)))
            /\ isSending' = IF view = "staff" THEN TRUE ELSE isSending
            /\ issued' = issued + 1
    /\ UNCHANGED <<engineVars, deleting, lastCall, toast, user, token, form, reads,
                   served, limit, log, remoteVars>>

\* the form once a submit went through: resetForm, and in staff chat
\* setEditingMessage(null) before it when the submit was an edit
FormAfterSubmit(call) ==
    IF view = "staff" /\ call.kind = "edit"
    THEN resetForm(view, [form EXCEPT !.editing = NoNode])
    ELSE resetForm(view, form)

\* setIsSending(false) at the end of the try block
SendingAfterSuccess(v, sending, outcome) ==
    IF v = "staff" /\ outcome = "ok" THEN FALSE ELSE sending

\* finally { setIsSending(false) }: however the call ended; the comment views
\* have no such flag
SendingAfter(v, sending, outcome) == IF v = "staff" THEN FALSE ELSE sending

\* handleCommentSubmit / handleSendMessage from the await on; the state
\* setters of a component that is no longer mounted do nothing, the toasts
\* are shown all the same. A call the backend had not carried out before is
\* carried out as it is answered; one it had carried out is answered, or its
\* answer is lost.
SubmitCompletes(i, outcome) ==
    /\ i \in 1..Len(calls)
    /\ calls[i].kind \in {"create", "edit"}
    /\ calls[i].stored # NoId => outcome # "rejected"
    /\ LET call == calls[i]
           start == Start
           answers == outcome = "ok" /\ call.stored = NoId
       IN  /\ IF handleResponseResolves(outcome) /\ mounted
              THEN /\ IF call.kind = "create"
                      THEN LET added == CreatedNode(start.h, call, outcome)
                           IN  Merged("insert", call.replyTo, added.r, start,
                                      insertReply(view, added.h, start.r, call.replyTo, added.r))
                      ELSE LET updated == UpdatedNode(start.h, start.r, call)
                           IN  Merged("edit", call.id, updated.r, start,
                                      editText(view, updated.h, start.r, call.seen, updated.r))
                   /\ form' = FormAfterSubmit(call)
                   /\ toast' = IF view \in CommentViews /\ call.kind = "edit"
                               THEN "updated" ELSE toast
              ELSE /\ prevHeap' = heap
                   /\ prevComments' = comments
                   /\ toast' = IF ~handleResponseResolves(outcome) THEN "error"
                               ELSE IF view \in CommentViews /\ call.kind = "edit"
                               THEN "updated" ELSE toast
                   /\ UNCHANGED <<heap, comments, lastOp, form>>
           /\ nextId' = IF call.kind = "create" /\ answers THEN nextId + 1 ELSE nextId
           /\ served' = IF call.kind = "create" /\ answers THEN served \cup {nextId} ELSE served
           /\ server' = IF view = "staff" /\ answers
                        THEN IF call.kind = "create"
                             THEN BackendPosts(server, nextId, user.id, call.text, call.media,
                                               call.replyTo)
                             ELSE BackendEdits(server, call.id, call.text)
                        ELSE server
           /\ lastCall' = [kind |-> call.kind, id |-> call.id, outcome |-> outcome,
                           n |-> call.n]
    /\ isSending' = IF mounted THEN SendingAfter(view, isSending, outcome) ELSE isSending
    /\ calls' = RemoveAt(calls, i)
    /\ UNCHANGED <<view, deleting, user, token, reads, issued, limit, log, entity, mounted,
                   polls, polled>>

Next ==
    \/ \E id \in TargetIds : OpenDeleteDialog(id)
    \/ CancelDelete
    \/ ConfirmDelete
    \/ \E i \in 1..Len(calls), outcome \in Outcomes : DeleteCompletes(i, outcome)
    \/ \E t \in Texts : SetText(t)
    \/ PickFile
    \/ FileLoaded
    \/ RemoveAttachment
    \/ \E n \in Rendered : StartReply(n)
    \/ \E n \in Rendered : StartEdit(n)
    \/ ResetForm
    \/ cancelEdit
    \/ CancelReply
    \/ Submit
    \/ \E i \in 1..Len(calls), outcome \in Outcomes : SubmitCompletes(i, outcome)

Spec == Init /\ [][Next]_vars

\* The views with calls racing: two calls of a run in flight, the compose
\* box without attachments.
InitRace == InitForest(MaxViewNodes) /\ InitView(MaxRaceOps)

NextRace ==
    \/ \E id \in TargetIds : OpenDeleteDialog(id)
    \/ CancelDelete
    \/ ConfirmDelete
    \/ \E i \in 1..Len(calls), outcome \in Outcomes : DeleteCompletes(i, outcome)
    \/ \E t \in Texts : SetText(t)
    \/ \E n \in Rendered : StartReply(n)
    \/ \E n \in Rendered : StartEdit(n)
    \/ ResetForm
    \/ cancelEdit
    \/ CancelReply
    \/ Submit
    \/ \E i \in 1..Len(calls), outcome \in Outcomes : SubmitCompletes(i, outcome)

SpecRace == InitRace /\ [][NextRace]_vars

\* The views with the stored token going away under them.
\* logout / the catch of checkUser run in another tab of the browser:
\* localStorage.removeItem('animeverse-auth-token') empties the storage the
\* tabs share, the `user` state of this tab stays as it is
TokenRemoved ==
    /\ token
    /\ token' = FALSE
    /\ UNCHANGED <<engineVars, deleting, calls, lastCall, toast, user, form, reads,
                   isSending, historyVars, remoteVars>>

NextAuth == Next \/ TokenRemoved

SpecAuth == Init /\ [][NextAuth]_vars

\* The staff chat with every call issued completing in the end: fetch
\* settles (resolves or rejects) and the handler awaiting it goes on.
CallCompletes ==
    \E i \in 1..Len(calls), outcome \in Outcomes :
        DeleteCompletes(i, outcome) \/ SubmitCompletes(i, outcome)

InitLive == Init /\ view = "staff"

NextLive ==
    \/ \E id \in TargetIds : OpenDeleteDialog(id)
    \/ CancelDelete
    \/ ConfirmDelete
    \/ \E i \in 1..Len(calls), outcome \in Outcomes : DeleteCompletes(i, outcome)
    \/ \E t \in Texts : SetText(t)
    \/ PickFile
    \/ FileLoaded
    \/ RemoveAttachment
    \/ \E n \in Rendered : StartReply(n)
    \/ \E n \in Rendered : StartEdit(n)
    \/ cancelEdit
    \/ CancelReply
    \/ Submit
    \/ \E i \in 1..Len(calls), outcome \in Outcomes : SubmitCompletes(i, outcome)

SpecLive == InitLive /\ [][NextLive]_vars /\ WF_vars(CallCompletes)

\* The views with the parent handing down another thread, and with the
\* component going away.
\* animeId / episodeId of the threads the parent can show
Entities == {1, 2}

\* useEffect(() => setComments(initialComments), [initialComments]): the
\* parent has loaded thread `e` and hands its comments down with its id (none,
\* or one comment the backend holds under an id of its own)
NewInitialComments(e, k) ==
    /\ mounted
    /\ view \in CommentViews
    /\ e > entity
    /\ LET start == Start
           one == ParseNode(start.h, view, nextId, WrittenBy(nextId), "text", NoId, <<>>)
       IN  Merged("initial", NoId, 0, start,
                  IF k = 0 THEN AllocArr(start.h, <<>>) ELSE AllocArr(one.h, <<one.r>>))
    /\ entity' = e
    /\ nextId' = nextId + k
    /\ served' = IF k = 0 THEN served ELSE served \cup {nextId}
    /\ UNCHANGED <<view, deleting, calls, lastCall, toast, formVars, issued, limit, log,
                   mounted, server, polls, polled>>

\* the component unmounts (the user navigates away): its state is gone for
\* good; the calls in flight are not aborted
Unmount ==
    /\ mounted
    /\ mounted' = FALSE
    /\ UNCHANGED <<engineVars, deleting, calls, lastCall, toast, formVars, historyVars,
                   entity, server, polls, polled>>

NextNav ==
    \/ Next
    \/ \E e \in Entities, k \in 0..1 : NewInitialComments(e, k)
    \/ Unmount

SpecNav == Init /\ [][NextNav]_vars

\* The staff chat with its poll: the timer, the backend and the other staff.
InitPoll == Init /\ view = "staff"

\* the other member of the staff
Other == 2

\* the other member of the staff posts a message from a session of their own
OtherPosts ==
    /\ Cardinality({i \in 1..Len(server) : server[i].text = "c"}) < MaxOtherPosts
    /\ server' = BackendPosts(server, nextId, Other, "c", NoFile, NoId)
    /\ nextId' = nextId + 1
    /\ UNCHANGED <<view, heap, comments, prevHeap, prevComments, lastOp, deleting, calls,
                   lastCall, toast, formVars, historyVars, entity, mounted, polls, polled>>

\* the backend carries out a create or update call in flight; its answer is
\* on its way
BackendStores(i) ==
    /\ i \in 1..Len(calls)
    /\ calls[i].kind \in {"create", "edit"}
    /\ calls[i].stored = NoId
    /\ LET call == calls[i]
       IN  IF call.kind = "create"
           THEN /\ server' = BackendPosts(server, nextId, user.id, call.text, call.media,
                                           call.replyTo)
                /\ calls' = [calls EXCEPT ![i].stored = nextId]
                /\ nextId' = nextId + 1
                /\ served' = served \cup {nextId}
           ELSE /\ server' = BackendEdits(server, call.id, call.text)
                /\ calls' = [calls EXCEPT ![i].stored = call.id]
                /\ UNCHANGED <<nextId, served>>
    /\ UNCHANGED <<view, heap, comments, prevHeap, prevComments, lastOp, deleting, lastCall,
                   toast, formVars, issued, limit, log, entity, mounted, polls, polled>>

\* setInterval(fetchMessages, 15000): the timer of a mounted chat calls
\* fetchMessages, whether or not an earlier call of it is still in flight;
\* polls are numbered apart from the calls of the handlers
PollIssued ==
    /\ mounted
    /\ polled < MaxPolls
    /\ polls' = Append(polls, [n |-> 0 - (polled + 1), answered |-> FALSE, snap |-> <<>>])
    /\ polled' = polled + 1
    /\ UNCHANGED <<engineVars, deleting, calls, lastCall, toast, formVars, historyVars,
                   entity, mounted, server>>

\* the backend answers a poll with the messages it holds
BackendAnswers(j) ==
    /\ j \in 1..Len(polls)
    /\ ~polls[j].answered
    /\ polls' = [polls EXCEPT ![j].answered = TRUE, ![j].snap = server]
    /\ UNCHANGED <<engineVars, deleting, calls, lastCall, toast, formVars, historyVars,
                   entity, mounted, server, polled>>

\* the messages of a response parsed: a new object for each, a new array for
\* its replies and a new array for the list
RECURSIVE ParseMessages(_, _, _, _)
ParseMessages(H, msgs, i, acc) ==
    IF i > Len(msgs) THEN AllocArr(H, acc)
    ELSE LET a == AllocArr(H, <<>>)
             o == AllocObj(a.h, [msgs[i] EXCEPT !.replies = a.r])
         IN  ParseMessages(o.h, msgs, i + 1, Append(acc, o.r))

\* the messages fetched put after the ones the view holds
setMessagesAppends(H, list, snap) == ParseMessages(H, snap, 1, Elems(H, list))

\* const fetchedMessages = await api.getStaffChatMessages();
\* setMessages(fetchedMessages): the list is the response, parsed
setMessages(H, list, snap) == ParseMessages(H, snap, 1, <<>>)

\* fetchMessages from the await on: setMessages(fetchedMessages), or the
\* toast of the catch; a poll the backend had not answered before is answered
\* as it completes
PollCompletes(j, outcome) ==
    /\ j \in 1..Len(polls)
    /\ polls[j].answered => outcome # "rejected"
    /\ LET poll == polls[j]
           start == Start
           snap == IF poll.answered THEN poll.snap ELSE server
       IN  /\ IF handleResponseResolves(outcome) /\ mounted
              THEN Merged("poll", NoId, 0, start, setMessages(start.h, start.r, snap))
              ELSE /\ prevHeap' = heap
                   /\ prevComments' = comments
                   /\ UNCHANGED <<heap, comments, lastOp>>
           /\ toast' = IF handleResponseResolves(outcome) THEN toast ELSE "error"
           /\ lastCall' = [kind |-> "poll", id |-> NoId, outcome |-> outcome, n |-> poll.n]
           /\ served' = IF handleResponseResolves(outcome)
                        THEN served \cup {snap[i].id : i \in 1..Len(snap)} ELSE served
    /\ polls' = RemoveAt(polls, j)
    /\ UNCHANGED <<view, nextId, deleting, calls, formVars, issued, limit, log, entity,
                   mounted, server, polled>>

NextPoll ==
    \/ \E t \in Texts : SetText(t)
    \/ \E n \in Rendered : StartEdit(n)
    \/ Submit
    \/ \E i \in 1..Len(calls) : BackendStores(i)
    \/ \E i \in 1..Len(calls), outcome \in Outcomes : SubmitCompletes(i, outcome)
    \/ OtherPosts
    \/ PollIssued
    \/ \E j \in 1..Len(polls) : BackendAnswers(j)
    \/ \E j \in 1..Len(polls), outcome \in Outcomes : PollCompletes(j, outcome)
    \/ Unmount

SpecPoll == InitPoll /\ [][NextPoll]_vars

\* The controls of the views as any viewer finds them: logged out, or logged
\* in as the author of some nodes or of none, with any role or with none.
Viewers == {NoUser} \cup {Viewer(uid, role) : uid \in {1, 2}, role \in Roles \cup {Undef}}

InitControls == InitForest(MaxViewNodes) /\ \E u \in Viewers : InitViewOf(u, 0)

NextControls ==
    \/ \E id \in TargetIds : OpenDeleteDialog(id)
    \/ CancelDelete
    \/ \E n \in Rendered : StartReply(n)
    \/ \E n \in Rendered : StartEdit(n)
    \/ ResetForm
    \/ cancelEdit
    \/ CancelReply

SpecControls == InitControls /\ [][NextControls]_vars

\* topLevelComments = comments.filter(c => !c.parent), as deep values
topLevelComments(H, list) ==
    SelectSeq(ListVal(H, list), LAMBDA c : c.parent = NoId)

\* ===================================================== properties of a merge
\* the list a merge was given, as it was; the list it returned; and the list
\* it was given, as it is now
Before == ListVal(prevHeap, prevComments)
After == ListVal(heap, comments)
InputNow == ListVal(heap, prevComments)

\* positions of a forest value: the index path from the top-level list
RECURSIVE Paths(_)
Paths(v) ==
    UNION {{<<i>>} \cup {<<i>> \o q : q \in Paths(v[i].replies)} : i \in 1..Len(v)}

RECURSIVE At(_, _)
At(v, p) == IF Len(p) = 1 THEN v[p[1]] ELSE At(v[p[1]].replies, Tail(p))

Front(p) == SubSeq(p, 1, Len(p) - 1)
Last(p) == p[Len(p)]

\* the list a position lies in: the top-level list or its parent's replies
SiblingsAt(v, p) == IF Len(p) = 1 THEN v ELSE At(v, Front(p)).replies

PathsTo(v, id) == {p \in Paths(v) : At(v, p).id = id}
IdsIn(v) == {At(v, p).id : p \in Paths(v)}

\* the ids on the way from the top-level list down to position p
IdsAlong(v, p) == [i \in 1..Len(p) |-> At(v, SubSeq(p, 1, i)).id]

\* a node's own fields, without its replies' content
Own(n) == [n EXCEPT !.replies = <<>>]

DeleteMerged == lastOp.kind = "delete" /\ view \in CommentViews

\* C2 (amended): in the anime and episode comment views, deleting a node that
\* has at least one reply keeps it at its position (same ancestors, same
\* index, same number of siblings), keeps its id and its replies unchanged,
\* sets isDeleted, clears mediaUrl, and replaces the text by the view's
\* placeholder ('' in the anime view, '[deleted]' in the episode view).
C2_TombstoneInPlace ==
    DeleteMerged =>
        \A p \in PathsTo(Before, lastOp.id) :
            Len(At(Before, p).replies) > 0 =>
                /\ p \in Paths(After)
                /\ IdsAlong(After, p) = IdsAlong(Before, p)
                /\ Len(SiblingsAt(After, p)) = Len(SiblingsAt(Before, p))
                /\ At(After, p).replies = At(Before, p).replies
                /\ At(After, p).isDeleted
                /\ At(After, p).mediaUrl = Undef
                /\ At(After, p).text = DeletedText(view)

\* C2 as claimed: the tombstone's text is undefined.
C2_TombstoneTextUndefined ==
    DeleteMerged =>
        \A p \in PathsTo(Before, lastOp.id) :
            Len(At(Before, p).replies) > 0 =>
                /\ p \in Paths(After)
                /\ IdsAlong(After, p) = IdsAlong(Before, p)
                /\ Len(SiblingsAt(After, p)) = Len(SiblingsAt(Before, p))
                /\ At(After, p).replies = At(Before, p).replies
                /\ At(After, p).isDeleted
                /\ At(After, p).mediaUrl = Undef
                /\ At(After, p).text = Undef

\* a nested node that carried media and a reply was deleted in the episode view
C2_Witness ==
    /\ DeleteMerged
    /\ view = "episode"
    /\ \E p \in PathsTo(Before, lastOp.id) :
          /\ Len(p) = 2
          /\ Len(At(Before, p).replies) > 0
          /\ At(Before, p).mediaUrl # Undef
          /\ At(After, p).isDeleted

\* C3: in the comment views, deleting a node with no replies (replies absent
\* or empty) removes exactly that node: the list it was in is the same list
\* without it (one shorter, the others in their order), and its id occurs
\* nowhere in the result.
C3_LeafRemoved ==
    DeleteMerged =>
        \A p \in PathsTo(Before, lastOp.id) :
            Len(At(Before, p).replies) = 0 =>
                /\ Len(p) > 1 => /\ Front(p) \in Paths(After)
                                 /\ IdsAlong(After, Front(p)) = IdsAlong(Before, Front(p))
                /\ SiblingsAt(After, p) = RemoveAt(SiblingsAt(Before, p), Last(p))
                /\ Len(SiblingsAt(After, p)) = Len(SiblingsAt(Before, p)) - 1
                /\ lastOp.id \notin IdsIn(After)

\* a nested leaf with an empty replies array and a sibling after it was deleted
C3_Witness ==
    /\ DeleteMerged
    /\ \E p \in PathsTo(Before, lastOp.id) :
          /\ Len(p) = 2
          /\ At(Before, p).hasReplies
          /\ Len(At(Before, p).replies) = 0
          /\ Len(SiblingsAt(Before, p)) > Last(p)
          /\ lastOp.id \notin IdsIn(After)

Merge == lastOp.kind # "none"

\* C4: a merge leaves the list it was given as it was: the input list, read
\* after the merge, has the content it had before.
C4_InputUnchanged == Merge => InputNow = Before

\* the node the server sent for the edit that was merged last
Updated == NodeVal(heap, lastOp.node)

EditMerged == lastOp.kind = "edit" /\ lastOp.id \in IdsIn(Before)

\* C5 (amended): after an edit of a node the list holds, the list has the
\* shape it had and every other node has the fields it had; in the anime and
\* episode comment views the edited node has the text the server sent and its
\* other fields as before, in staff chat the edited node is the node the
\* server sent, with all its fields.
C5_EditChangesOneNode ==
    EditMerged =>
        /\ Paths(After) = Paths(Before)
        /\ \A p \in Paths(Before) :
              Own(At(After, p)) =
                  IF At(Before, p).id # lastOp.id THEN Own(At(Before, p))
                  ELSE IF view = "staff" THEN Own(Updated)
                  ELSE [Own(At(Before, p)) EXCEPT !.text = Updated.text]

\* C5 as claimed: in every view the edited node has the new text and its other
\* fields as before.
C5_EditChangesOnlyText ==
    EditMerged =>
        /\ Paths(After) = Paths(Before)
        /\ \A p \in Paths(Before) :
              Own(At(After, p)) =
                  IF At(Before, p).id # lastOp.id THEN Own(At(Before, p))
                  ELSE [Own(At(Before, p)) EXCEPT !.text = Updated.text]

\* a nested node with a reply of its own was edited in a comment view, the
\* server's copy carrying a renewed author snapshot
C5_Witness ==
    /\ EditMerged
    /\ view \in CommentViews
    /\ \E p \in PathsTo(Before, lastOp.id) :
          /\ Len(p) = 2
          /\ Len(At(Before, p).replies) > 0
          /\ At(After, p).text = "b"
          /\ At(Before, p).text # "b"
          /\ Updated.author # At(Before, p).author

\* node addresses of the list given and of the list returned
NodesBefore == Range(NodesOf(prevHeap, prevComments))
NodesAfter == Range(NodesOf(heap, comments))

\* the ids of the target of the last merge and of its ancestors
PathIds == UNION {Range(IdsAlong(Before, p)) : p \in PathsTo(Before, lastOp.id)}

\* C6: after a merge on a target the list holds, every node on the path from
\* the top-level list to the target is a new object in the result, and every
\* other node of the list given is in the result as the very same object.
C6_StructuralSharing ==
    (Merge /\ view \in CommentViews /\ lastOp.id \in IdsIn(Before)) =>
        \A n \in NodesBefore :
            IF prevHeap.objs[n].id \in PathIds
            THEN n \notin NodesAfter
            ELSE n \in NodesAfter

Added == NodeVal(heap, lastOp.node)

TopInserted == lastOp.kind = "insert" /\ lastOp.id = NoId

\* C8 (amended): a node submitted with no reply target is put first in the
\* top-level list in the anime and episode comment views (it is the first of
\* topLevelComments, the nodes the list held follow in their order), and last
\* in the list in staff chat (the messages the list held come before it in
\* their order).
C8_TopInsertPlace ==
    TopInserted =>
        IF view = "staff" THEN After = Before \o <<Added>>
        ELSE /\ After = <<Added>> \o Before
             /\ topLevelComments(heap, comments)[1] = Added

\* C8 as claimed: in every view the node is put first.
C8_TopInsertFirst ==
    TopInserted =>
        /\ After = <<Added>> \o Before
        /\ topLevelComments(heap, comments)[1] = Added

\* a node was submitted with no reply target in the episode view to a list
\* that held two or more, and is the first of the result
C8_Witness ==
    /\ TopInserted
    /\ view = "episode"
    /\ Len(Before) >= 2
    /\ Len(After) = Len(Before) + 1
    /\ After[1].id = nextId

\* C9: in the comment views a reply to a node the list holds, at any depth,
\* is appended to that node's replies (the earlier replies come before it in
\* their order), the node stays where it was, and the reply occurs nowhere
\* else: once in the result, and the top-level list is no longer.
C9_ReplyAppended ==
    (lastOp.kind = "insert" /\ view \in CommentViews /\ lastOp.id \in IdsIn(Before)) =>
        /\ \A p \in PathsTo(Before, lastOp.id) :
              /\ p \in Paths(After)
              /\ IdsAlong(After, p) = IdsAlong(Before, p)
              /\ At(After, p).replies = At(Before, p).replies \o <<Added>>
        /\ Cardinality(PathsTo(After, Added.id)) = 1
        /\ Len(After) = Len(Before)

\* a reply was merged under a node two levels down that already had a reply
C9_Witness ==
    /\ lastOp.kind = "insert"
    /\ view \in CommentViews
    /\ \E p \in PathsTo(Before, lastOp.id) :
          /\ Len(p) = 2
          /\ Len(At(Before, p).replies) = 1
          /\ Len(At(After, p).replies) = 2

\* the result of the last delete, deleted from once more
DeletedAgain == softDelete(view, heap, comments, comments, lastOp.id)

\* C10: deleting the same id from the result of a delete changes nothing: the
\* second result has the content of the first, in each of the three views.
C10_DeleteIdempotent ==
    lastOp.kind = "delete" => ListVal(DeletedAgain.h, DeletedAgain.r) = After

\* a node with replies was deleted and left a tombstone
C10_Witness ==
    /\ lastOp.kind = "delete"
    /\ view \in CommentViews
    /\ \E p \in PathsTo(After, lastOp.id) :
          At(After, p).isDeleted /\ ~At(Before, p).isDeleted /\ Len(At(After, p).replies) > 0

\* ============================================== properties of the scenarios
\* the ids of a list of node values, in order
IdsOf(v) == [i \in 1..Len(v) |-> v[i].id]

\* the replies of the node `id` of the list shown: its replies array in the
\* comment views, the messages that name it as parent in staff chat
ChildrenOf(id) ==
    IF view = "staff" THEN SelectSeq(After, LAMBDA m : m.parent = id)
    ELSE At(After, CHOOSE p \in PathsTo(After, id) : TRUE).replies

\* insert c1 at top level, insert c2 as a reply to c1, delete c2, delete c1
EndToEnd ==
    <<[kind |-> "insert", id |-> NoId], [kind |-> "insert", id |-> 1],
      [kind |-> "delete", id |-> 2], [kind |-> "delete", id |-> 1]>>

\* C11: from the empty list, after inserting c1 at top level the top-level list
\* is [c1]; after inserting c2 as a reply to c1 the replies of c1 are [c2];
\* after deleting c2 the replies of c1 are [] with c1 still in the list and not
\* deleted; after deleting c1 the list is empty (c1 is removed, not marked).
C11_EndToEnd ==
    /\ log = SubSeq(EndToEnd, 1, 1) =>
          IdsOf(topLevelComments(heap, comments)) = <<1>>
    /\ log = SubSeq(EndToEnd, 1, 2) =>
          /\ IdsOf(topLevelComments(heap, comments)) = <<1>>
          /\ IdsOf(ChildrenOf(1)) = <<2>>
    /\ log = SubSeq(EndToEnd, 1, 3) =>
          /\ IdsOf(topLevelComments(heap, comments)) = <<1>>
          /\ ChildrenOf(1) = <<>>
          /\ 2 \notin IdsIn(After)
          /\ \A p \in PathsTo(After, 1) : ~At(After, p).isDeleted
    /\ log = EndToEnd => After = <<>>

\* the four steps were taken in a comment view, c1 a node that came with a
\* replies array, and the list is empty again
C11_Witness ==
    /\ log = EndToEnd
    /\ view \in CommentViews
    /\ After = <<>>
    /\ Before # <<>>
    /\ Before[1].hasReplies


\* ================================================== properties of the views
\* C1: a delete call the backend rejected, or that failed in transport, leaves
\* the list with the content it had.
C1_RejectedDeleteKeepsList ==
    (lastCall.kind = "delete" /\ lastCall.outcome # "ok") => After = Before

\* the ids of the replies of node `id` in a list value: the replies array in
\* the comment views, the messages that name it as parent in staff chat
ChildIdsIn(v, id) ==
    IF view = "staff" THEN {At(v, p).id : p \in {q \in Paths(v) : At(v, q).parent = id}}
    ELSE UNION {{At(v, p).replies[i].id : i \in 1..Len(At(v, p).replies)} : p \in PathsTo(v, id)}

\* C12: a delete takes at most its target out of the list: every other node
\* the list held is still in it with its own fields as they were, and a target
\* that had a reply is still in it (marked, not removed).
C12_DeleteTakesTargetOnly ==
    lastOp.kind = "delete" =>
        /\ \A p \in Paths(Before) :
              At(Before, p).id # lastOp.id =>
                  \E q \in Paths(After) : Own(At(After, q)) = Own(At(Before, p))
        /\ ChildIdsIn(Before, lastOp.id) # {} => lastOp.id \in IdsIn(After)

\* C13: every node of the list shown has an id the backend has sent, in the
\* list the view was mounted with or in the response of a create call that
\* completed successfully; no node stands for a create call still in flight
\* or failed (such a node would have no id the backend sent).
C13_NoSpeculativeInsert ==
    /\ IdsIn(After) \subseteq served
    /\ Cardinality(PathsTo(After, NoId)) = 0

\* a create call completed successfully and its node is in the list while a
\* second create call is still in flight
C13_Witness ==
    /\ lastCall.kind = "create"
    /\ lastCall.outcome = "ok"
    /\ (nextId - 1) \in IdsIn(After)
    /\ \E i \in 1..Len(calls) : calls[i].kind = "create"

\* a step in which a create or update call completes without success: it was
\* rejected by the backend or failed in transport
SubmitFails ==
    /\ lastCall'.n # lastCall.n
    /\ lastCall'.kind \in {"create", "edit"}
    /\ lastCall'.outcome # "ok"

\* C14: the step in which a create or update call fails leaves the list with
\* the content it had, shows the error notification, and issues no call: the
\* failed call leaves the calls in flight and none is added.
C14_FailedSubmit ==
    [][SubmitFails =>
          /\ ListVal(heap', comments') = ListVal(heap, comments)
          /\ toast' = "error"
          /\ issued' = issued
          /\ Len(calls') = Len(calls) - 1
          /\ \A i \in 1..Len(calls') : calls'[i].n # lastCall'.n]_vars

\* an update call was rejected by the backend while another call was in
\* flight, the error was notified and the list is as it was
C14_Witness ==
    /\ lastCall.kind = "edit"
    /\ lastCall.outcome = "rejected"
    /\ toast = "error"
    /\ After = Before
    /\ After # <<>>
    /\ Len(calls) > 0

\* C15: the step in which a create or update call fails leaves the compose
\* state as it is: the text typed, the pending attachment and its preview, the
\* reply target and the edit target. A step in which a call completes changes
\* the compose state only when the call is a create or update call that
\* succeeded.
C15_FailedSubmitKeepsForm ==
    [][/\ SubmitFails => form' = form
       /\ (lastCall'.n # lastCall.n /\ form' # form) =>
              (lastCall'.kind \in {"create", "edit"} /\ lastCall'.outcome = "ok")]_vars

\* a reply with a text and an attachment failed in transport and the form
\* still holds the text, the attachment and the reply target
C15_Witness ==
    /\ lastCall.kind = "create"
    /\ lastCall.outcome = "failed"
    /\ calls = <<>>
    /\ form.text = "b"
    /\ form.media = "m"
    /\ form.replyTo # NoNode

\* a text with nothing but white space in it
Blank(t) == t \in {"", " "}

\* create and update requests among the calls in flight
SubmitRequests(cs) == {i \in 1..Len(cs) : cs[i].kind \in {"create", "edit"}}

\* C16: from a compose state whose text is empty or blank and that has no
\* pending attachment no step issues a create or update request: the requests
\* in flight do not grow in number and no call is counted as issued for one.
C16_EmptySubmitStaysLocal ==
    [][(Blank(form.text) /\ form.media = NoFile) =>
          /\ Cardinality(SubmitRequests(calls')) <= Cardinality(SubmitRequests(calls))
          /\ \A i \in SubmitRequests(calls') : calls'[i].n <= issued]_vars

\* a blank text is in the box of a logged-in viewer, with a reply target set
\* and no attachment, and nothing was sent
C16_Witness ==
    /\ form.text = " "
    /\ form.media = NoFile
    /\ form.replyTo # NoNode
    /\ user # NoUser
    /\ ~isSending
    /\ deleting = NoId
    /\ issued = 0

\* C17: every node of the list shown that is not marked deleted has a
\* non-empty text or an attachment.
C17_NodesHaveContent ==
    \A p \in Paths(After) :
        ~At(After, p).isDeleted => (At(After, p).text # "" \/ At(After, p).mediaUrl # Undef)

\* owner, co-owner, admin
PrivilegedRoles == {"owner", "co-owner", "admin"}

\* the viewer is logged in, and wrote the node or has a privileged role
MayModify(u, o) == u # NoUser /\ (u.id = o.author.id \/ u.role \in PrivilegedRoles)

C19_RequestsCarryBearer ==
    \A i \in 1..Len(calls) : calls[i].auth = "Bearer"

\* C20: the reply target and the edit target of the compose state are never
\* both set.
C20_ReplyXorEdit == ~(form.replyTo # NoNode /\ form.editing # NoNode)

\* C21: while an edit target is set no attachment is pending, neither its
\* data nor its preview, however the file read and the start of the edit
\* interleave.
C21_NoAttachmentWhileEditing ==
    form.editing # NoNode => form.media = NoFile /\ ~form.preview

\* a step in which a create or update call completes with success
SubmitSucceeds ==
    /\ lastCall'.n # lastCall.n
    /\ lastCall'.kind \in {"create", "edit"}
    /\ lastCall'.outcome = "ok"

\* a step in which the viewer cancels the edit being composed: the edit
\* target goes from set to null and no call completes
EditCancelled ==
    /\ lastCall' = lastCall
    /\ form.editing # NoNode
    /\ form'.editing = NoNode

\* C22: the step in which a submit succeeds, and the step in which the viewer
\* cancels, leave the compose state cleared: empty text, no attachment and no
\* preview, no reply target, no edit target.
C22_SubmitAndCancelClear ==
    [][(SubmitSucceeds \/ EditCancelled) => form' = EmptyForm]_vars

\* C23: at most one create or update request of the view's compose box is
\* in flight at any time.
C23_OneSubmitInFlight == Cardinality(SubmitRequests(calls)) <= 1

\* C24: in staff chat, when every call issued completes, a sending flag
\* that is set is cleared again in the end, and the flag is clear whenever no
\* create or update request is in flight.
C24_SendingFlagCleared ==
    /\ isSending ~> ~isSending
    /\ [](SubmitRequests(calls) = {} => ~isSending)

\* a staff-chat send failed and the flag is clear again
C24_Witness ==
    /\ view = "staff"
    /\ lastCall.kind \in {"create", "edit"}
    /\ lastCall.outcome # "ok"
    /\ calls = <<>>
    /\ ~isSending

\* two create calls of a comment view have completed with success, the
\* later one just now: the backend gave their nodes the ids nextId - 2 and
\* nextId - 1
TwoCreated ==
    /\ view \in CommentViews
    /\ calls = <<>>
    /\ lastCall.kind = "create"
    /\ lastCall.outcome = "ok"
    /\ (nextId - 2) \in served

\* a step in which a create call of a mounted comment view is answered with
\* success; the node returned has the id nextId
CreateApplied ==
    /\ view \in CommentViews
    /\ mounted
    /\ lastCall'.n # lastCall.n
    /\ lastCall'.kind = "create"
    /\ lastCall'.outcome = "ok"

\* C26: the step in which a create call of a comment view is answered keeps
\* every node the list holds, among them the node of a create call answered
\* before it, and adds the node returned: among the replies of its target
\* where the list holds the target, and where it has no target at the head
\* of the list, before the nodes the list held, which keep their order.
C26_RacingCreatesBothMerged ==
    [][CreateApplied =>
          /\ IdsIn(After) \subseteq IdsIn(ListVal(heap', comments'))
          /\ lastOp'.id \in IdsIn(After) =>
                nextId \in ChildIdsIn(ListVal(heap', comments'), lastOp'.id)
          /\ lastOp'.id = NoId =>
                /\ ListVal(heap', comments')[1].id = nextId
                /\ Tail(ListVal(heap', comments')) = After]_vars

\* the create call issued first was answered last, both at top level
C26_Witness ==
    /\ TwoCreated
    /\ lastCall.n = 1
    /\ lastOp.id = NoId
    /\ Len(After) >= 2
    /\ After[2].id = nextId - 2

\* the call that completes in this step was issued for another thread than
\* the one the view shows, or the view is no longer mounted
LateAnswer ==
    /\ lastCall'.n # lastCall.n
    /\ \E i \in 1..Len(calls) :
          calls[i].n = lastCall'.n /\ (calls[i].entity # entity \/ ~mounted)

\* C25: the answer to a call issued for another thread than the one shown, or
\* arriving after the view was unmounted, changes neither the list nor any
\* other state of the view.
C25_LateAnswerDiscarded ==
    [][LateAnswer =>
          /\ heap' = heap
          /\ comments' = comments
          /\ form' = form
          /\ deleting' = deleting
          /\ isSending' = isSending]_vars

\* the fields of a message or comment, as the backend and the views hold them
Fields(m) ==
    [id |-> m.id, author |-> m.author, text |-> m.text, mediaUrl |-> m.mediaUrl,
     parent |-> m.parent, isDeleted |-> m.isDeleted]

MessagesIn(v) == [i \in 1..Len(v) |-> Fields(v[i])]

\* a step in which a poll completes
PollApplied == lastCall'.n # lastCall.n /\ lastCall'.kind = "poll"

\* C27: in staff chat, right after a poll of a mounted chat completed with
\* success the list is the snapshot the backend answered it with, message by
\* message; a poll that failed, or completed after the unmount, leaves the
\* list as it was. A poll is issued only in a step of its own (the timer's),
\* never by a handler, and only while the chat is mounted.
C27_LastSnapshotWins ==
    [][/\ PollApplied =>
              \A j \in 1..Len(polls) :
                  polls[j].n = lastCall'.n =>
                      IF lastCall'.outcome = "ok" /\ mounted
                      THEN MessagesIn(ListVal(heap', comments')) =
                               MessagesIn(IF polls[j].answered THEN polls[j].snap ELSE server)
                      ELSE ListVal(heap', comments') = ListVal(heap, comments)
       /\ Len(polls') > Len(polls) =>
              /\ mounted
              /\ calls' = calls
              /\ lastCall' = lastCall
              /\ form' = form]_vars

\* a poll answered before the backend stored a message completed after the
\* message had been put into the list: the list no longer holds it
C27_Witness ==
    /\ lastOp.kind = "poll"
    /\ lastCall.outcome = "ok"
    /\ \E id \in IdsIn(Before) : id \notin IdsIn(After) /\ \E i \in 1..Len(server) : server[i].id = id

\* C28: in staff chat no two entries of the message list have the same id.
C28_NoDuplicateIds ==
    \A i, j \in 1..Len(After) : After[i].id = After[j].id => i = j

\* a step in which an update call of a mounted staff chat completes with
\* success
EditApplied ==
    /\ view = "staff"
    /\ mounted
    /\ lastCall'.n # lastCall.n
    /\ lastCall'.kind = "edit"
    /\ lastCall'.outcome = "ok"

\* C29: in staff chat, the step in which an edit completes changes the
\* edited message only: the list has the messages it had just before, in
\* their places, each but the edited one as it was.
C29_EditMergesIntoCurrentList ==
    [][EditApplied =>
          /\ Len(ListVal(heap', comments')) = Len(After)
          /\ \A i \in 1..Len(After) :
                IF After[i].id = lastCall'.id
                THEN ListVal(heap', comments')[i].id = After[i].id
                ELSE ListVal(heap', comments')[i] = After[i]]_vars

\* a step of a comment view that leaves the content of the list as it is,
\* or is one in which a create, update or delete call that the backend
\* confirmed completes, or one in which the parent hands down a new
\* initialComments value, the list then being that value with none of the
\* nodes it held before
ForestStep ==
    /\ ListVal(heap', comments') # After =>
          \/ lastCall'.n # lastCall.n /\ lastCall'.outcome = "ok"
          \/ entity' # entity
    /\ entity' # entity =>
          \A id \in IdsIn(ListVal(heap', comments')) : id \notin IdsIn(After) /\ id = nextId

\* C30: in the anime and episode comment views the content of the list
\* changes only in a step in which a create, update or delete call completes
\* that the backend confirmed, or in which the parent hands down a new
\* initialComments value; in the latter the list is that value, with none of
\* the nodes it held before. No other step (typing, attaching, choosing a
\* reply or edit target, the delete dialog) changes it.
C30_ForestChangesOnlyByMerges == [][(view \in CommentViews) => ForestStep]_vars

====
